---- MODULE Spec2Model ----
(***************************************************************************)
(* LoRA.py: a LoRA weight parametrization (LoRAParametrization) and the    *)
(* script that trains a three-layer network, registers one adapter per     *)
(* linear layer, freezes the base parameters and fine-tunes the adapters.  *)
(*                                                                         *)
(* Two specifications share the module:                                    *)
(*   SpecAdapter  one LoRAParametrization object: construction, forward,   *)
(*                the enabled flag and updates of its two factors;         *)
(*   Spec         the script from top to bottom (train, original_weights,  *)
(*                parameter counts, registration, freeze, train).          *)
(*                                                                         *)
(* Tensors are a shape and a row-major sequence of elements, as in torch.  *)
(* Elements are exact rationals <<n, d>> (d > 0, lowest terms): floating   *)
(* point rounding is not modelled.                                         *)
(***************************************************************************)
EXTENDS Integers, Sequences, FiniteSets

VARIABLES
    \* ---- SpecAdapter: one adapter object and the last call made on it
    lora,       \* the constructed LoRAParametrization, or None
    ctor,       \* the last constructor call: its arguments and its error
    fresh,      \* TRUE from construction until the object is first changed
    fw,         \* the last forward call (argument, result, error), or None
    \* ---- Spec: the script
    pc,                          \* the statement the script is at
    net,                         \* the three linear layers of SimpleNN
    tr,                          \* the locals of the running train() call
    run,                         \* what this run is given: len(train_loader) of both
                                 \* loaders, the iteration limit, the build's zero_grad
    original_weights,            \* the dict saved at lines 105-107
    total_parameters_original,   \* line 138
    total_parameters_lora,       \* line 195
    total_parameters_non_lora,   \* line 196
    enabled_arg                  \* argument of the last enable_disable_lora

adapterVars == <<lora, ctor, fresh, fw>>
scriptVars == <<pc, net, tr, run, original_weights, total_parameters_original,
                total_parameters_lora, total_parameters_non_lora, enabled_arg>>
vars == <<lora, ctor, fresh, fw, pc, net, tr, run, original_weights,
          total_parameters_original, total_parameters_lora,
          total_parameters_non_lora, enabled_arg>>

\* Python's None where an object is expected
None == [none |-> TRUE]
NoErr == "ok"

----------------------------------------------------------------------------
(* Bounds of the model.                                                    *)

\* feature dimensions tried for an adapter and a weight: -1 .. MaxDim
MaxDim == 2
\* ranks tried: -1 .. MaxRank
MaxRank == 2
\* alpha tried: -1 .. MaxAlpha
MaxAlpha == 2
\* tensor elements tried: -MaxVal .. MaxVal
MaxVal == 1
\* the shape of the weight in the worked example (features_in = features_out = 4)
ExampleShape == <<4, 4>>

----------------------------------------------------------------------------
(* Exact arithmetic on tensor elements.                                    *)

Abs(x) == IF x < 0 THEN -x ELSE x

RECURSIVE Gcd(_, _)
Gcd(a, b) == IF b = 0 THEN a ELSE Gcd(b, a % b)

\* the rational n/d in lowest terms with a positive denominator (d # 0)
Rat(n, d) ==
    LET g == Gcd(Abs(n), Abs(d))
        s == IF d < 0 THEN -1 ELSE 1
    IN <<(s * n) \div g, (s * d) \div g>>

RAdd(x, y) == Rat(x[1] * y[2] + y[1] * x[2], x[2] * y[2])
RMul(x, y) == Rat(x[1] * y[1], x[2] * y[2])
Zero == <<0, 1>>
One == <<1, 1>>

RECURSIVE ISum(_, _)
\* f[1] + ... + f[n] of integers
ISum(f, n) == IF n = 0 THEN 0 ELSE ISum(f, n - 1) + f[n]

RECURSIVE RSum(_, _)
\* f[1] + ... + f[n]
RSum(f, n) == IF n = 0 THEN Zero ELSE RAdd(RSum(f, n - 1), f[n])

----------------------------------------------------------------------------
(* Tensors.                                                                *)

RECURSIVE Prod(_)
Prod(s) == IF s = <<>> THEN 1 ELSE Head(s) * Prod(Tail(s))

\* Tensor.nelement()
nelement(t) == Prod(t.shape)

Full(shape, v) == [shape |-> shape, data |-> [k \in 1..Prod(shape) |-> v]]

\* torch.zeros(shape), lines 150-151
zeros(shape) == Full(shape, Zero)

\* a tensor whose elements are all different: 1, 2, 3, ... in row-major order
Ramp(shape) == [shape |-> shape, data |-> [k \in 1..Prod(shape) |-> <<k, 1>>]]

\* ones on the diagonal of a matrix
Eye(shape) ==
    [shape |-> shape,
     data |-> [k \in 1..Prod(shape) |->
                 IF (k - 1) \div shape[2] = (k - 1) % shape[2] THEN One ELSE Zero]]

\* torch.matmul of a (n x r) by a (r x m) matrix, line 161
matmul(x, y) ==
    LET n == x.shape[1]
        r == x.shape[2]
        m == y.shape[2]
    IN [shape |-> <<n, m>>,
        data |-> [k \in 1..(n * m) |->
                    LET i == (k - 1) \div m
                        j == (k - 1) % m
                    IN RSum([l \in 1..r |-> RMul(x.data[i * r + l], y.data[(l - 1) * m + j + 1])], r)]]

\* Tensor.view(shape), line 161: the same storage under another shape; raises
\* RuntimeError when the shape holds another number of elements
view(t, shape) ==
    IF Prod(shape) # nelement(t)
    THEN [err |-> "RuntimeError", val |-> None]
    ELSE [err |-> NoErr, val |-> [shape |-> shape, data |-> t.data]]

\* tensor * scalar, line 161
mul(t, s) == [shape |-> t.shape, data |-> [k \in 1..nelement(t) |-> RMul(t.data[k], s)]]

\* tensor + tensor of the same shape, line 161
add(x, y) == [shape |-> x.shape, data |-> [k \in 1..nelement(x) |-> RAdd(x.data[k], y.data[k])]]

\* nn.Parameter(tensor): trainable by default, no gradient yet
Parameter(t) == [data |-> t, requires_grad |-> TRUE, grad |-> "None"]

----------------------------------------------------------------------------
(* LoRAParametrization, lines 146-164.                                     *)

\* __init__: sample is what nn.init.normal_ writes into lora_A. torch.zeros
\* raises RuntimeError on a negative dimension and accepts 0; alpha / rank
\* raises ZeroDivisionError when rank = 0.
LoRAParametrizationInitNormalB(features_in, features_out, rank, alpha, sample) ==
    IF rank < 0 \/ features_out < 0 \/ features_in < 0
    THEN [err |-> "RuntimeError", obj |-> None]
    ELSE IF rank = 0
    THEN [err |-> "ZeroDivisionError", obj |-> None]
    ELSE [err |-> NoErr,
          obj |-> [lora_A |-> Parameter(sample),
                   lora_B |-> Parameter(Full(<<features_in, rank>>, One)),
                   scale |-> Rat(alpha, rank),
                   enabled |-> TRUE]]

LoRAParametrizationInit(features_in, features_out, rank, alpha, sample) ==
    IF rank < 0 \/ features_out < 0
    THEN [err |-> "RuntimeError", obj |-> None]                   \* line 150
    ELSE IF features_in < 0
    THEN [err |-> "RuntimeError", obj |-> None]                   \* line 151
    ELSE IF rank = 0
    THEN [err |-> "ZeroDivisionError", obj |-> None]              \* line 155
    ELSE [err |-> NoErr,
          obj |-> [lora_A |-> Parameter(sample),                  \* lines 150, 152
                   lora_B |-> Parameter(zeros(<<features_in, rank>>)),
                   scale |-> Rat(alpha, rank),
                   enabled |-> TRUE]]

\* forward, lines 158-164. arg is the argument tensor as the call leaves it.
forwardUnscaled(self, W) ==
    IF self.enabled
    THEN LET v == view(matmul(self.lora_B.data, self.lora_A.data), W.shape)
         IN IF v.err # NoErr
            THEN [err |-> v.err, ret |-> None, arg |-> W]
            ELSE [err |-> NoErr, ret |-> add(W, v.val), arg |-> W]
    ELSE [err |-> NoErr, ret |-> W, arg |-> W]

forwardInPlace(self, W) ==
    IF self.enabled
    THEN LET v == view(matmul(self.lora_B.data, self.lora_A.data), W.shape)
         IN IF v.err # NoErr
            THEN [err |-> v.err, ret |-> None, arg |-> W]
            ELSE LET r == add(W, mul(v.val, self.scale))
                 IN [err |-> NoErr, ret |-> r, arg |-> r]
    ELSE [err |-> NoErr, ret |-> W, arg |-> W]

forwardBroadcast(self, W) ==
    IF self.enabled
    THEN LET BA == matmul(self.lora_B.data, self.lora_A.data)
         IN IF BA.shape # W.shape
            THEN [err |-> NoErr, ret |-> W, arg |-> W]
            ELSE [err |-> NoErr, ret |-> add(W, mul(BA, self.scale)), arg |-> W]
    ELSE [err |-> NoErr, ret |-> W, arg |-> W]

forward(self, W) ==
    IF self.enabled
    THEN LET v == view(matmul(self.lora_B.data, self.lora_A.data), W.shape)
         IN IF v.err # NoErr
            THEN [err |-> v.err, ret |-> None, arg |-> W]
            ELSE [err |-> NoErr, ret |-> add(W, mul(v.val, self.scale)), arg |-> W]
    ELSE [err |-> NoErr, ret |-> W, arg |-> W]

----------------------------------------------------------------------------
(* SpecAdapter: one adapter object.                                        *)

Vals == {<<v, 1>> : v \in (-MaxVal)..MaxVal}

\* values an optimizer step or normal_ may leave in a tensor of this shape
Samples(shape) == {Full(shape, v) : v \in Vals} \cup {Ramp(shape)}

\* weights handed to forward
Weights ==
    UNION {Samples(<<r, c>>) \cup {Eye(<<r, c>>)} : r \in 0..MaxDim, c \in 0..MaxDim}
    \cup {zeros(ExampleShape), Eye(ExampleShape)}

\* constructor arguments tried: (features_in, features_out, rank, alpha)
CtorArgs ==
    ((-1..MaxDim) \X (-1..MaxDim) \X (-1..MaxRank) \X (-1..MaxAlpha))
    \cup {<<ExampleShape[1], ExampleShape[2], 1, 1>>}

\* x = LoRAParametrization(features_in, features_out, rank, alpha): on an
\* exception no object is bound
Construct ==
    /\ lora = None
    /\ fw = None
    /\ \E a \in CtorArgs :
         \E sample \in (IF a[3] >= 0 /\ a[2] >= 0 THEN Samples(<<a[3], a[2]>>) ELSE {None}) :
           LET r == LoRAParametrizationInit(a[1], a[2], a[3], a[4], sample)
           IN /\ lora' = r.obj
              /\ ctor' = [features_in |-> a[1], features_out |-> a[2],
                          rank |-> a[3], alpha |-> a[4], err |-> r.err]
              /\ fresh' = (r.err = NoErr)
    /\ UNCHANGED <<fw, scriptVars>>

\* an optimizer step on the two factors (line 89): new values, same shapes
StepFactors ==
    /\ lora # None
    /\ fw = None
    /\ \E a \in Samples(lora.lora_A.data.shape), b \in Samples(lora.lora_B.data.shape) :
         lora' = [lora EXCEPT !.lora_A.data = a, !.lora_B.data = b]
    /\ fresh' = FALSE
    /\ UNCHANGED <<ctor, fw, scriptVars>>

\* the assignment of line 191 on this adapter
SetEnabled ==
    /\ lora # None
    /\ fw = None
    /\ \E e \in BOOLEAN : lora' = [lora EXCEPT !.enabled = e]
    /\ fresh' = FALSE
    /\ UNCHANGED <<ctor, fw, scriptVars>>

\* a call of forward on a weight tensor W
Forward ==
    /\ lora # None
    /\ fw = None
    /\ \E W \in Weights :
         LET r == forward(lora, W)
         IN fw' = [W |-> W, arg |-> r.arg, ret |-> r.ret, err |-> r.err]
    /\ UNCHANGED <<lora, ctor, fresh, scriptVars>>

\* the caller is done with the returned weight (SimpleNN.forward uses the
\* weight it read for one linear map)
Release ==
    /\ fw # None
    /\ fw' = None
    /\ UNCHANGED <<lora, ctor, fresh, scriptVars>>

ScriptIdle ==
    /\ pc = "idle"
    /\ net = None
    /\ tr = None
    /\ run = None
    /\ original_weights = <<>>
    /\ total_parameters_original = 0
    /\ total_parameters_lora = 0
    /\ total_parameters_non_lora = 0
    /\ enabled_arg = <<>>

InitAdapter ==
    /\ lora = None
    /\ ctor = None
    /\ fresh = FALSE
    /\ fw = None
    /\ ScriptIdle

NextAdapter == Construct \/ StepFactors \/ SetEnabled \/ Forward \/ Release

SpecAdapter == InitAdapter /\ [][NextAdapter]_vars

----------------------------------------------------------------------------
(* Spec: the script, top to bottom.                                        *)

\* layer widths of SimpleNN (28*28, 1000, 2000 and 10 in the script), scaled
InputSize == 2
hidden_size_1 == 1
hidden_size_2 == 2
OutputSize == 1
\* len(train_loader) tried: 1 .. MaxBatches
MaxBatches == 2
\* total_iterations_limit tried at line 228: 1 .. MaxLimit
MaxLimit == 4
\* epochs tried for a train call with arguments of its own: 0 .. MaxEpochs
MaxEpochs == 2
\* epochs of the two train calls of the script
BaselineEpochs == 1
FineTuneEpochs == 2
\* rank and lora_alpha defaults of linear_layer_parameterization
DefaultRank == 1
DefaultAlpha == 1

Sizes == <<InputSize, hidden_size_1, hidden_size_2, OutputSize>>
Layers == 1..3

\* nn.Linear(in_features, out_features), lines 42-44: weight is out x in
\* (a representative of the random initial values)
Linear(in_features, out_features) ==
    [weight |-> Parameter(Ramp(<<out_features, in_features>>)),
     bias |-> Parameter(Full(<<out_features>>, One)),
     parametrization |-> None]

\* SimpleNN.__init__, lines 39-45
SimpleNN == [k \in Layers |-> Linear(Sizes[k], Sizes[k + 1])]

\* ---- parameter names, as sequences of characters
Dot == <<".">>
s_linear(k) == <<"l", "i", "n", "e", "a", "r", <<"1", "2", "3">>[k]>>
s_weight == <<"w", "e", "i", "g", "h", "t">>
s_bias == <<"b", "i", "a", "s">>
s_parametrizations == <<"p", "a", "r", "a", "m", "e", "t", "r", "i", "z", "a", "t", "i", "o", "n", "s">>
s_original == <<"o", "r", "i", "g", "i", "n", "a", "l">>
s_lora_A == <<"l", "o", "r", "a", "_", "A">>
s_lora_B == <<"l", "o", "r", "a", "_", "B">>
s_lora == <<"l", "o", "r", "a">>

\* sub in name (Python's substring test)
Contains(name, sub) ==
    \E i \in 1..(Len(name) - Len(sub) + 1) : SubSeq(name, i, i + Len(sub) - 1) = sub

\* Module.named_parameters() of one layer: a plain layer has weight and bias;
\* a parametrized one has bias, parametrizations.weight.original and the two
\* parameters of parametrizations.weight.0
LayerNamedParameters(n, k) ==
    IF n[k].parametrization = None
    THEN << [name |-> s_linear(k) \o Dot \o s_weight, layer |-> k, field |-> "weight"],
            [name |-> s_linear(k) \o Dot \o s_bias, layer |-> k, field |-> "bias"] >>
    ELSE LET pre == s_linear(k) \o Dot \o s_parametrizations \o Dot \o s_weight \o Dot
         IN << [name |-> s_linear(k) \o Dot \o s_bias, layer |-> k, field |-> "bias"],
               [name |-> pre \o s_original, layer |-> k, field |-> "weight"],
               [name |-> pre \o <<"0">> \o Dot \o s_lora_A, layer |-> k, field |-> "lora_A"],
               [name |-> pre \o <<"0">> \o Dot \o s_lora_B, layer |-> k, field |-> "lora_B"] >>

\* net.named_parameters(), lines 64, 106, 215
named_parameters(n) ==
    LayerNamedParameters(n, 1) \o LayerNamedParameters(n, 2) \o LayerNamedParameters(n, 3)

Range(f) == {f[i] : i \in DOMAIN f}

FieldsOf(layer) ==
    IF layer.parametrization = None THEN {"weight", "bias"}
    ELSE {"weight", "bias", "lora_A", "lora_B"}

\* the parameter object of a layer under a field
FieldParam(layer, field) ==
    IF field = "weight" THEN layer.weight
    ELSE IF field = "bias" THEN layer.bias
    ELSE IF field = "lora_A" THEN layer.parametrization.lora_A
    ELSE layer.parametrization.lora_B

\* the parameter object an entry of named_parameters refers to
ParamOf(n, e) == FieldParam(n[e.layer], e.field)

\* the name named_parameters gives the parameter of layer k under a field
NameOf(n, k, field) ==
    (CHOOSE e \in Range(named_parameters(n)) : e.layer = k /\ e.field = field).name

\* the layer with ps[field] in place of each of its parameters
WithParams(layer, ps) ==
    LET l1 == [layer EXCEPT !.weight = ps["weight"], !.bias = ps["bias"]]
    IN IF layer.parametrization = None THEN l1
       ELSE [l1 EXCEPT !.parametrization.lora_A = ps["lora_A"],
                       !.parametrization.lora_B = ps["lora_B"]]

\* layer.weight: read through the registered parametrization, if any
LayerWeight(layer) ==
    IF layer.parametrization = None
    THEN [err |-> NoErr, ret |-> layer.weight.data, arg |-> layer.weight.data]
    ELSE forward(layer.parametrization, layer.weight.data)

IsZeroTensor(t) == \A k \in 1..nelement(t) : t.data[k] = Zero

AddScalar(t, d) == [shape |-> t.shape, data |-> [k \in 1..nelement(t) |-> RAdd(t.data[k], <<d, 1>>)]]

----------------------------------------------------------------------------
(* train, lines 61-98.                                                     *)

NoLimit == <<>>

\* lines 62-67: a new Adam optimizer over net.parameters(), total_iterations = 0
TrainCall(epochs, limit, nb) ==
    [active |-> TRUE, epochs |-> epochs, limit |-> limit, nb |-> nb,
     epoch |-> 0, i |-> 0, total_iterations |-> 0,
     steps |-> 0, moved |-> {}, returned_at_limit |-> FALSE]

TrainBegin ==
    /\ pc \in {"train_baseline", "train_finetune"}
    /\ ~tr.active
    /\ tr' = IF pc = "train_baseline"
             THEN TrainCall(BaselineEpochs, NoLimit, run.len_baseline)       \* line 101
             ELSE TrainCall(FineTuneEpochs, <<run.limit>>, run.len_finetune)  \* line 228
    /\ UNCHANGED <<pc, net, run, original_weights, total_parameters_original,
                   total_parameters_lora, total_parameters_non_lora, enabled_arg, adapterVars>>

\* where control is once the call returns
AfterTrain ==
    IF pc = "train_baseline" THEN "save_original_weights"
    ELSE IF pc = "train_finetune" THEN "done"
    ELSE "returned"

\* optimizer.zero_grad(), line 82: sets each gradient to None (the default
\* since torch 2.0) or zeroes the gradients that exist (before)
zero_gradSkipped(p, set_to_none) == p

zero_grad(p, set_to_none) ==
    IF set_to_none THEN [p EXCEPT !.grad = "None"]
    ELSE IF p.grad = "None" THEN p
    ELSE [p EXCEPT !.grad = "zero"]

\* whether the loss depends on the parameter: the factors only through an
\* enabled adapter (line 159)
InGraph(layer, field) ==
    field \in {"weight", "bias"} \/ layer.parametrization.enabled

\* loss.backward(), line 88: a gradient for every parameter in the graph that
\* requires one; d(loss)/dA = B^T G and d(loss)/dB = G A^T vanish with the
\* other factor
backward(layer, field, p) ==
    IF ~(p.requires_grad /\ InGraph(layer, field)) THEN p
    ELSE IF field = "lora_A" /\ IsZeroTensor(layer.parametrization.lora_B.data)
    THEN [p EXCEPT !.grad = "zero"]
    ELSE IF field = "lora_B" /\ IsZeroTensor(layer.parametrization.lora_A.data)
    THEN [p EXCEPT !.grad = "zero"]
    ELSE [p EXCEPT !.grad = "nonzero"]

\* Adam's running average of a parameter's gradient is nonzero once one of
\* its gradients was
MovedAfter(moved, n) ==
    moved \cup {<<k, f>> \in Layers \X {"weight", "bias", "lora_A", "lora_B"} :
                  f \in FieldsOf(n[k]) /\ FieldParam(n[k], f).grad = "nonzero"}

\* Adam.step on one parameter: skipped without a gradient; the update is zero
\* while every gradient seen was zero, else d
adam(p, hasMoved, d) ==
    IF p.grad = "None" \/ ~hasMoved THEN p
    ELSE [p EXCEPT !.data = AddScalar(p.data, d)]

\* line 82 on every parameter the optimizer holds
ZeroGradAll(n) ==
    [k \in Layers |->
       WithParams(n[k], [f \in FieldsOf(n[k]) |->
                           zero_grad(FieldParam(n[k], f), run.set_to_none)])]

\* line 88 on every parameter of the net
BackwardAll(n) ==
    [k \in Layers |->
       WithParams(n[k], [f \in FieldsOf(n[k]) |-> backward(n[k], f, FieldParam(n[k], f))])]

\* line 89 on every parameter the optimizer holds
StepAll(n, moved, d) ==
    [k \in Layers |->
       WithParams(n[k], [f \in FieldsOf(n[k]) |->
                           adam(FieldParam(n[k], f), <<k, f>> \in moved, d)])]

\* backward raises RuntimeError when the loss depends on no parameter that
\* requires a gradient
HasGraph(n) ==
    \E k \in Layers : \E f \in FieldsOf(n[k]) :
        FieldParam(n[k], f).requires_grad /\ InGraph(n[k], f)

\* the directions an Adam update takes
Deltas == {-1, 1}

\* one iteration of the inner loop, lines 78-98. scaler.step (line 89) skips
\* the optimizer step when the scaled gradients overflowed.
TrainIter ==
    /\ tr.active
    /\ tr.epoch < tr.epochs
    /\ tr.i < tr.nb
    /\ IF ~HasGraph(net)
       THEN /\ pc' = "crashed"
            /\ tr' = [tr EXCEPT !.active = FALSE]
            /\ net' = ZeroGradAll(net)
       ELSE \E upd \in {"skip", "step"}, d \in Deltas :
              LET g == BackwardAll(ZeroGradAll(net))
                  moved == IF upd = "skip" THEN tr.moved ELSE MovedAfter(tr.moved, g)
                  total == tr.total_iterations + 1
                  stop == tr.limit # NoLimit /\ total >= tr.limit[1]
              IN /\ net' = IF upd = "skip" THEN g ELSE StepAll(g, moved, d)
                 /\ tr' = [tr EXCEPT !.i = @ + 1, !.total_iterations = total,
                                     !.steps = @ + 1, !.moved = moved,
                                     !.active = ~stop, !.returned_at_limit = stop]
                 /\ pc' = IF stop THEN AfterTrain ELSE pc
    /\ UNCHANGED <<run, original_weights, total_parameters_original,
                   total_parameters_lora, total_parameters_non_lora, enabled_arg, adapterVars>>

\* the inner loop is exhausted: the next epoch, lines 69-78
TrainNextEpochResetsCounter ==
    /\ tr.active
    /\ tr.epoch < tr.epochs
    /\ tr.i = tr.nb
    /\ tr' = [tr EXCEPT !.epoch = @ + 1, !.i = 0, !.total_iterations = 0]
    /\ UNCHANGED <<pc, net, run, original_weights, total_parameters_original,
                   total_parameters_lora, total_parameters_non_lora, enabled_arg, adapterVars>>

TrainNextEpoch ==
    /\ tr.active
    /\ tr.epoch < tr.epochs
    /\ tr.i = tr.nb
    /\ tr' = [tr EXCEPT !.epoch = @ + 1, !.i = 0]
    /\ UNCHANGED <<pc, net, run, original_weights, total_parameters_original,
                   total_parameters_lora, total_parameters_non_lora, enabled_arg, adapterVars>>

\* the outer loop is exhausted: train returns
TrainReturn ==
    /\ tr.active
    /\ tr.epoch = tr.epochs
    /\ tr' = [tr EXCEPT !.active = FALSE]
    /\ pc' = AfterTrain
    /\ UNCHANGED <<net, run, original_weights, total_parameters_original,
                   total_parameters_lora, total_parameters_non_lora, enabled_arg, adapterVars>>

----------------------------------------------------------------------------
(* The statements of the script between and after the two train calls.     *)

\* lines 105-107
SaveOriginalWeights ==
    /\ pc = "save_original_weights"
    /\ original_weights' =
         LET np == named_parameters(net)
         IN [nm \in {e.name : e \in Range(np)} |->
               ParamOf(net, CHOOSE e \in Range(np) : e.name = nm).data]
    /\ pc' = "count_original"
    /\ UNCHANGED <<net, tr, run, total_parameters_original, total_parameters_lora,
                   total_parameters_non_lora, enabled_arg, adapterVars>>

\* lines 138-142 (eval_model, line 134, reads the net and changes nothing)
CountOriginal ==
    /\ pc = "count_original"
    /\ LET ws == [k \in Layers |-> LayerWeight(net[k])]
       IN /\ total_parameters_original' =
               ISum([k \in Layers |-> nelement(ws[k].ret) + nelement(net[k].bias.data)], 3)
          /\ pc' = "register"
    /\ UNCHANGED <<net, tr, run, original_weights, total_parameters_lora,
                   total_parameters_non_lora, enabled_arg, adapterVars>>

\* lines 170-175: features_in, features_out = layer.weight.shape
linear_layer_parameterization(layer, sample) ==
    LET shape == LayerWeight(layer).ret.shape
    IN LoRAParametrizationInit(shape[1], shape[2], DefaultRank, DefaultAlpha, sample)

\* what nn.init.normal_ leaves in lora_A (a representative: no element zero)
NormalSample(shape) == Ramp(shape)

\* the layer the script registers next: the first one without an adapter
NextToRegister ==
    CHOOSE k \in Layers :
        /\ net[k].parametrization = None
        /\ \A j \in Layers : net[j].parametrization = None => k <= j

\* one register_parametrization call, lines 178-186. torch evaluates the
\* parametrization once and raises unless it keeps the shape of the weight.
Register ==
    /\ pc = "register"
    /\ LET k == NextToRegister
       IN LET r == linear_layer_parameterization(
                         net[k], NormalSample(<<DefaultRank, net[k].weight.data.shape[2]>>))
              n1 == [net EXCEPT ![k].parametrization = r.obj]
          IN IF r.err # NoErr
             THEN /\ pc' = "crashed"
                  /\ net' = net
             ELSE IF LayerWeight(n1[k]).err # NoErr
             THEN /\ pc' = "crashed"
                  /\ net' = net
             ELSE /\ net' = n1
                  /\ pc' = IF k = 3 THEN "count_lora" ELSE pc
    /\ UNCHANGED <<tr, run, original_weights, total_parameters_original,
                   total_parameters_lora, total_parameters_non_lora, enabled_arg, adapterVars>>

\* enable_disable_lora, lines 189-191: callable once the three adapters are
\* registered, between two statements of the script
enable_disable_loraFirstLayerOnly(enabled) ==
    /\ pc \in {"count_lora", "freeze", "train_finetune", "done"}
    /\ ~tr.active
    /\ net' = [net EXCEPT ![1].parametrization.enabled = enabled]
    /\ enabled_arg' = <<enabled>>
    /\ UNCHANGED <<pc, tr, run, original_weights, total_parameters_original,
                   total_parameters_lora, total_parameters_non_lora, adapterVars>>

enable_disable_lora(enabled) ==
    /\ pc \in {"count_lora", "freeze", "train_finetune", "done"}
    /\ ~tr.active
    /\ net' = [k \in Layers |-> [net[k] EXCEPT !.parametrization.enabled = enabled]]
    /\ enabled_arg' = <<enabled>>
    /\ UNCHANGED <<pc, tr, run, original_weights, total_parameters_original,
                   total_parameters_lora, total_parameters_non_lora, adapterVars>>

\* line 199, for one layer
NonLoRAElementsWithFactors(layer) ==
    nelement(LayerWeight(layer).ret) + nelement(layer.bias.data)
        + nelement(layer.parametrization.lora_A.data)

NonLoRAElements(layer) ==
    nelement(LayerWeight(layer).ret) + nelement(layer.bias.data)

\* line 198, for one layer
LoRAElements(layer) ==
    nelement(layer.parametrization.lora_A.data) + nelement(layer.parametrization.lora_B.data)

\* lines 195-211, with the assert of line 206
CountLoRA ==
    /\ pc = "count_lora"
    /\ total_parameters_lora' = ISum([k \in Layers |-> LoRAElements(net[k])], 3)
    /\ total_parameters_non_lora' = ISum([k \in Layers |-> NonLoRAElements(net[k])], 3)
    /\ pc' = IF total_parameters_non_lora' = total_parameters_original
             THEN "freeze" ELSE "AssertionError"
    /\ UNCHANGED <<net, tr, run, original_weights, total_parameters_original,
                   enabled_arg, adapterVars>>

\* 'lora' not in name, line 216
IsFrozenNameByPrefix(name) ==
    ~(Len(name) >= Len(s_lora) /\ SubSeq(name, 1, Len(s_lora)) = s_lora)

IsFrozenName(name) == ~Contains(name, s_lora)

\* lines 215-218
Freeze ==
    /\ pc = "freeze"
    /\ net' = [k \in Layers |->
                 WithParams(net[k], [f \in FieldsOf(net[k]) |->
                     IF IsFrozenName(NameOf(net, k, f))
                     THEN [FieldParam(net[k], f) EXCEPT !.requires_grad = FALSE]
                     ELSE FieldParam(net[k], f)])]
    /\ pc' = "train_finetune"
    /\ UNCHANGED <<tr, run, original_weights, total_parameters_original,
                   total_parameters_lora, total_parameters_non_lora, enabled_arg, adapterVars>>

AdapterIdle ==
    /\ lora = None
    /\ ctor = None
    /\ fresh = FALSE
    /\ fw = None

Init ==
    /\ pc = "train_baseline"
    /\ net = SimpleNN
    /\ tr = [TrainCall(0, NoLimit, 0) EXCEPT !.active = FALSE]
    /\ run \in [len_baseline : 1..MaxBatches, len_finetune : 1..MaxBatches,
                limit : 1..MaxLimit, set_to_none : BOOLEAN]
    /\ original_weights = <<>>
    /\ total_parameters_original = 0
    /\ total_parameters_lora = 0
    /\ total_parameters_non_lora = 0
    /\ enabled_arg = <<>>
    /\ AdapterIdle

\* a statement of a running train call
TrainStep == TrainIter \/ TrainNextEpoch \/ TrainReturn

\* a statement of the script
ScriptStep ==
    \/ TrainBegin
    \/ TrainStep
    \/ SaveOriginalWeights
    \/ CountOriginal
    \/ Register
    \/ CountLoRA
    \/ Freeze

\* a call of enable_disable_lora from outside the script
Toggle == \E enabled \in BOOLEAN : enable_disable_lora(enabled)

Next == ScriptStep \/ Toggle

Spec == Init /\ [][Next]_vars

\* train called on the new net with arguments of its own: any number of
\* epochs and of batches in the loader, with or without a limit
InitTrain ==
    /\ pc = "train"
    /\ net = SimpleNN
    /\ \E epochs \in 0..MaxEpochs, nb \in 0..MaxBatches,
          limit \in {NoLimit} \cup {<<L>> : L \in 1..MaxLimit} :
         tr = TrainCall(epochs, limit, nb)
    /\ run \in [len_baseline : {1}, len_finetune : {1}, limit : {1}, set_to_none : BOOLEAN]
    /\ original_weights = <<>>
    /\ total_parameters_original = 0
    /\ total_parameters_lora = 0
    /\ total_parameters_non_lora = 0
    /\ enabled_arg = <<>>
    /\ AdapterIdle

SpecTrain == InitTrain /\ [][TrainStep]_vars

\* the interpreter goes on with the next statement of the call it is in
FairSpecTrain == SpecTrain /\ WF_vars(TrainStep)

----------------------------------------------------------------------------
(* Properties of one adapter (SpecAdapter).                                *)

\* element (i, j) of a matrix, 1-based; the tensors tried hold whole numbers
At(t, i, j) == t.data[(i - 1) * t.shape[2] + j][1]

\* (features_in, features_out) of the adapter: rows of B, columns of A
AdapterShape == <<lora.lora_B.data.shape[1], lora.lora_A.data.shape[2]>>

\* element k (row-major) of the integer matrix product B*A
ProductAt(k) ==
    LET fo == AdapterShape[2]
        i == ((k - 1) \div fo) + 1
        j == ((k - 1) % fo) + 1
        r == lora.lora_A.data.shape[1]
    IN ISum([l \in 1..r |-> At(lora.lora_B.data, i, l) * At(lora.lora_A.data, l, j)], r)

ExampleN == ExampleShape[1]

\* C1: a forward call on an adapter as its constructor left it (B zero, A
\* sampled, enabled), with a weight of shape features_in x features_out,
\* returns without error a tensor equal to the weight, element for element.
C1_FreshAdapterIsNoOp ==
    (fw # None /\ fresh /\ fw.W.shape = AdapterShape)
        => (fw.err = NoErr /\ fw.ret = fw.W)

C1_Witness ==
    /\ fw # None
    /\ fresh
    /\ ctor.features_in = ExampleN /\ ctor.features_out = ExampleN
    /\ ctor.rank = 1 /\ ctor.alpha = 1
    /\ lora.lora_A.data = Ramp(<<1, ExampleN>>)
    /\ fw.W = Eye(ExampleShape)
    /\ fw.ret = Eye(ExampleShape)

\* C2: a forward call on an enabled adapter with a weight of as many elements
\* as B*A returns, for every element k of the weight (row-major),
\* W[k] + (alpha / rank) * (B*A)[k], in the shape of the weight; in the worked
\* example (rank 1, alpha 1, B and A all ones, W the zero n x n matrix) that
\* is the all-ones n x n matrix.
C2_EnabledForwardAddsScaledProduct ==
    (fw # None /\ lora.enabled /\ nelement(fw.W) = AdapterShape[1] * AdapterShape[2])
        => /\ fw.err = NoErr
           /\ fw.ret.shape = fw.W.shape
           /\ DOMAIN fw.ret.data = 1..nelement(fw.W)
           /\ \A k \in 1..nelement(fw.W) :
                fw.ret.data[k][1] * ctor.rank
                    = fw.ret.data[k][2] * (fw.W.data[k][1] * ctor.rank + ctor.alpha * ProductAt(k))
           /\ ( /\ ctor.rank = 1 /\ ctor.alpha = 1
                /\ lora.lora_B.data = Full(<<ExampleN, 1>>, One)
                /\ lora.lora_A.data = Full(<<1, ExampleN>>, One)
                /\ fw.W = zeros(ExampleShape) )
              => fw.ret = Full(ExampleShape, One)

C2_Witness ==
    /\ fw # None
    /\ lora.enabled
    /\ ctor.rank = 1 /\ ctor.alpha = 1
    /\ lora.lora_B.data = Full(<<ExampleN, 1>>, One)
    /\ lora.lora_A.data = Full(<<1, ExampleN>>, One)
    /\ fw.W = zeros(ExampleShape)
    /\ fw.ret = Full(ExampleShape, One)

\* a second case of C2: the scale is not 1 and the weight has the elements of
\* B*A under another shape
C2_WitnessReshaped ==
    /\ fw # None
    /\ lora.enabled
    /\ lora.scale = <<1, 2>>
    /\ fw.W.shape # AdapterShape
    /\ fw.err = NoErr
    /\ \E k \in 1..nelement(fw.W) : fw.ret.data[k][2] = 2

\* C3: forward on a disabled adapter returns its argument, whatever A and B
\* hold and whatever the shape of the argument; and no forward call, enabled
\* or not, changes the tensor it was given.
C3_DisabledForwardIsIdentity ==
    fw # None
        => /\ fw.arg = fw.W
           /\ (~lora.enabled => (fw.err = NoErr /\ fw.ret = fw.W))

C3_Witness ==
    /\ fw # None
    /\ ~lora.enabled
    /\ lora.lora_B.data = Ramp(<<2, 1>>)
    /\ lora.lora_A.data = Ramp(<<1, 2>>)
    /\ fw.W = Ramp(<<2, 2>>)
    /\ fw.ret = fw.W
    /\ fw.arg = fw.W

\* C8 (as claimed): a constructor call with rank < 1 or a feature dimension
\* <= 0 fails, and leaves no adapter.
C8_InvalidArgumentsRejected ==
    (ctor # None /\ (ctor.rank < 1 \/ ctor.features_in <= 0 \/ ctor.features_out <= 0))
        => (ctor.err # NoErr /\ lora = None)

\* C9: a forward call on an enabled adapter with a weight whose element count
\* differs from features_in * features_out raises the error of view, returns
\* nothing, and leaves the weight and the adapter (A, B, scale, enabled) as
\* they were.
C9_MismatchRaisesAndMutatesNothing ==
    [][ ( /\ fw = None /\ fw' # None
          /\ lora.enabled
          /\ nelement(fw'.W) # AdapterShape[1] * AdapterShape[2] )
        => ( /\ fw'.err = "RuntimeError"
             /\ fw'.ret = None
             /\ fw'.arg = fw'.W
             /\ lora' = lora ) ]_vars

C9_Witness ==
    /\ fw # None
    /\ lora.enabled
    /\ nelement(fw.W) # AdapterShape[1] * AdapterShape[2]
    /\ fw.err = "RuntimeError"
    /\ fw.arg = fw.W

----------------------------------------------------------------------------
(* Properties of the script (Spec) and of a train call (FairSpecTrain).      *)

\* the statements after the freeze loop of lines 215-218
AfterFreeze == pc \in {"train_finetune", "done", "crashed"}

\* the statements after original_weights was filled
AfterSave ==
    pc \in {"count_original", "register", "count_lora", "freeze",
            "train_finetune", "done", "crashed"}

\* the parts of an adapter and of its layer that enable_disable_lora must not touch
Untouched(k) ==
    /\ net'[k].weight = net[k].weight
    /\ net'[k].bias = net[k].bias
    /\ net'[k].parametrization.lora_A = net[k].parametrization.lora_A
    /\ net'[k].parametrization.lora_B = net[k].parametrization.lora_B
    /\ net'[k].parametrization.scale = net[k].parametrization.scale

\* a step that sets an adapter's flag or records a call of enable_disable_lora
FlagStep ==
    \/ enabled_arg' # enabled_arg
    \/ \E k \in Layers :
         /\ net[k].parametrization # None
         /\ net'[k].parametrization # None
         /\ net'[k].parametrization.enabled # net[k].parametrization.enabled

\* C4: after any calls of enable_disable_lora the three adapters hold the
\* flag of the last call, a later weight read of a disabled layer gives the
\* base weight, and a call changes nothing but the flags: A, B, scale, the
\* base weights and biases, and the script's other variables stay as they are.
C4_EnableDisableSetsEveryFlagOnly ==
    /\ [](enabled_arg # <<>> =>
            \A k \in Layers :
               /\ net[k].parametrization.enabled = enabled_arg[1]
               /\ (~enabled_arg[1] => LayerWeight(net[k]).ret = net[k].weight.data))
    /\ [][FlagStep =>
            /\ \A k \in Layers : Untouched(k)
            /\ UNCHANGED <<pc, tr, run, original_weights, total_parameters_original,
                           total_parameters_lora, total_parameters_non_lora>>]_vars

C4_Witness ==
    /\ pc = "done"
    /\ enabled_arg = <<FALSE>>
    /\ \A k \in Layers : ~net[k].parametrization.enabled
    /\ \E k \in Layers : ~IsZeroTensor(net[k].parametrization.lora_B.data)
    /\ \E k \in Layers : LayerWeight([net[k] EXCEPT !.parametrization.enabled = TRUE]).ret
                            # net[k].weight.data

\* the names of the six adapter parameters
LoRANames ==
    {s_linear(k) \o Dot \o s_parametrizations \o Dot \o s_weight \o Dot \o <<"0">> \o Dot \o f :
        k \in Layers, f \in {s_lora_A, s_lora_B}}

\* the names under which named_parameters lists parameters that require a gradient
TrainableNames ==
    {e.name : e \in {x \in Range(named_parameters(net)) : ParamOf(net, x).requires_grad}}

\* C5: a registered adapter contributes exactly two parameters, lora_A with
\* rank * features_out elements and lora_B with features_in * rank elements
\* (features_in x features_out the shape of the layer's weight), whatever its
\* flag; after the freeze loop the parameters that require a gradient are
\* exactly the six lora_A / lora_B, so no base weight and no bias does.
C5_TrainableAreExactlyTheFactors ==
    /\ \A k \in Layers :
         net[k].parametrization # None =>
           LET shape == net[k].weight.data.shape
               own == {e \in Range(named_parameters(net)) :
                         e.layer = k /\ Contains(e.name, Dot \o <<"0">> \o Dot)}
           IN /\ {e.field : e \in own} = {"lora_A", "lora_B"}
              /\ Cardinality(own) = 2
              /\ nelement(net[k].parametrization.lora_A.data) = DefaultRank * shape[2]
              /\ nelement(net[k].parametrization.lora_B.data) = shape[1] * DefaultRank
    /\ AfterFreeze =>
         /\ TrainableNames = LoRANames
         /\ \A k \in Layers : ~net[k].weight.requires_grad /\ ~net[k].bias.requires_grad

C5_Witness ==
    /\ pc = "done"
    /\ TrainableNames = LoRANames
    /\ \A k \in Layers : ~net[k].parametrization.enabled
    /\ nelement(net[1].parametrization.lora_A.data) = InputSize
    /\ nelement(net[1].parametrization.lora_B.data) = hidden_size_1

\* C6: from the moment original_weights is saved, through registration, the
\* freeze and every iteration of the fine-tuning call, each layer's base
\* weight and bias equal the saved tensors.
C6_FineTuningLeavesBaseWeights ==
    AfterSave =>
      \A k \in Layers :
         /\ original_weights[s_linear(k) \o Dot \o s_weight] = net[k].weight.data
         /\ original_weights[s_linear(k) \o Dot \o s_bias] = net[k].bias.data

C6_Witness ==
    /\ pc = "done"
    /\ tr.steps > 1
    /\ \A k \in Layers : ~IsZeroTensor(net[k].parametrization.lora_B.data)
    /\ \A k \in Layers : net[k].parametrization.lora_A.data
                            # NormalSample(net[k].parametrization.lora_A.data.shape)
    /\ \A k \in Layers : net[k].weight.data # SimpleNN[k].weight.data
    /\ \A k \in Layers : original_weights[s_linear(k) \o Dot \o s_weight] = net[k].weight.data

\* weight and bias elements of nn.Linear(in, out): out * in + out
LinearElements(k) == Sizes[k + 1] * Sizes[k] + Sizes[k + 1]

\* C7: the assert of line 206 never fails: the weight and bias element counts
\* read after registration add up to the total taken before it, which is the
\* sum of out * in + out over the three layers.
C7_NonLoRACountUnchanged ==
    /\ pc # "AssertionError"
    /\ pc \in {"freeze", "train_finetune", "done", "crashed"} =>
         /\ total_parameters_non_lora = total_parameters_original
         /\ total_parameters_non_lora = LinearElements(1) + LinearElements(2) + LinearElements(3)

C7_Witness ==
    /\ pc = "freeze"
    /\ enabled_arg = <<TRUE>>
    /\ total_parameters_non_lora = total_parameters_original
    /\ total_parameters_original > 0
    /\ total_parameters_lora > 0

Min(a, b) == IF a < b THEN a ELSE b

\* tr describes a train call that has returned
TrainReturned == pc = "returned"

\* C10: a started train call ends; its counter is never reset, so a call
\* with limit L >= 1 has made exactly min(L, epochs * batches) iterations when
\* it returns, returning from inside the loop exactly when the counter
\* reached L, and a call without limit has made epochs * batches iterations.
C10_TrainTerminatesWithExactStepCount ==
    /\ [](TrainReturned =>
            IF tr.limit = NoLimit
            THEN tr.steps = tr.epochs * tr.nb /\ ~tr.returned_at_limit
            ELSE /\ tr.steps = Min(tr.limit[1], tr.epochs * tr.nb)
                 /\ tr.returned_at_limit <=> (tr.limit[1] <= tr.epochs * tr.nb)
                 /\ tr.returned_at_limit => tr.total_iterations = tr.limit[1])
    /\ [](tr.total_iterations = tr.steps)
    /\ (tr.active ~> TrainReturned)

\* the limit is reached in the second epoch: the counter went on counting
C10_Witness ==
    /\ TrainReturned
    /\ tr.limit # NoLimit
    /\ tr.returned_at_limit
    /\ tr.epoch = 1
    /\ tr.limit[1] > tr.nb
    /\ tr.steps = tr.limit[1]

\* the call ends by exhausting its epochs below the limit
C10_WitnessExhausted ==
    /\ TrainReturned
    /\ tr.limit # NoLimit
    /\ ~tr.returned_at_limit
    /\ tr.epochs = 2
    /\ tr.limit[1] > tr.epochs * tr.nb
    /\ tr.steps = tr.epochs * tr.nb
    /\ tr.steps > 0

\* a call without limit runs every batch of every epoch
C10_WitnessNoLimit ==
    /\ TrainReturned
    /\ tr.limit = NoLimit
    /\ tr.epochs = 2
    /\ tr.nb = 2
    /\ tr.steps = 4

====
